---- MODULE Spec2Model ----
(***************************************************************************)
(* A model of ttdapi/client.py: the session/authentication state machine   *)
(* of BaseTTDClient (token property, _refresh_token, _request, get, post,  *)
(* put), the pagination generator post_paginated and the delta-sync        *)
(* generators of TTDClient.                                                *)
(*                                                                         *)
(* The client is single threaded.  Every network call (Session.request) is *)
(* one step of the model: the server's answer to it is the step's input.   *)
(* A generator is a coroutine: its position and locals are state, the      *)
(* consumer's next() is the action Pull.                                   *)
(***************************************************************************)
EXTENDS Integers, Sequences, FiniteSets, TLC

(***************************************************************************)
(* Values                                                                  *)
(***************************************************************************)
\* Python's None where a string is expected (a token, a header value, a version).
None == "<None>"

\* no response body / no return value
NoBody == [nil |-> TRUE]

\* self._login, self._password (client.py:36-37): fixed for the client's life
_login == "login"
_password == "password"

\* self.base_url (client.py:33,35) as a sequence of path characters
base_url == <<"v3", "/">>

\* default of _refresh_token's expires_in parameter (client.py:61)
DefaultExpiresIn == 90

\* the token lifetimes a client is constructed with
ExpiresInValues == {30, DefaultExpiresIn}

\* tokens the authentication endpoint hands out; its Token field may also be null
Tokens == {"t1", "t2"}
TokenFields == Tokens \cup {None}

\* HTTP statuses the server answers with
Statuses == {200, 304, 401, 403, 500}

Methods == {"GET", "POST", "PUT"}

\* endpoints as the caller writes them, with and without a leading separator
Endpoints == {<<"/", "campaign">>, <<"campaign">>}

\* the tracking version the server assigns to its k-th page of changes, and the
\* versions a caller may have kept from an earlier run
Version(k) == "V" \o ToString(k)
CallerVersions == {None, "V0"}

\* opaque bodies of plain endpoints
Bodies == {[data |-> "b1"], [data |-> "b2"]}

\* the text of an error response
ErrorBody == [text |-> "error"]

(***************************************************************************)
(* Bounds of the model                                                     *)
(***************************************************************************)
\* length of the server's result list behind a paginated endpoint
MaxData == 3
\* entries a log of a paginated run keeps
LogCap == MaxData + 2
\* largest page_size and page_start_index the caller passes
MaxPageSize == 2
MaxStartIndex == 1
\* number of delta pages the server has at most, and items per delta page
MaxDeltaPages == 3
MaxDeltaItems == 2
\* longest endpoint string _build_url is applied to, in parts
MaxEndpointLen == 3

VARIABLES
    _token,            \* self._token
    headers,           \* self.headers (the session's default headers)
    token_expires_in,  \* self.token_expires_in
    pc,                \* position of the authenticated call in progress
    req,               \* arguments of the call in progress
    calls,             \* the network calls of the current call, in order
    outcome,           \* how the last call ended: return value or exception
    age,               \* authenticated operations begun so far, at most 2
    gen,               \* the generator in use: its position and its locals
    server,            \* what the server holds behind the generator's endpoint
    posts,             \* the bodies of the generator's post() calls, in order
    resps,             \* what those post() calls returned, in order
    yielded            \* the elements the consumer received, in order

vars == <<_token, headers, token_expires_in, pc, req, calls, outcome, age,
          gen, server, posts, resps, yielded>>

client == <<_token, headers, token_expires_in>>
genvars == <<gen, server, posts, resps, yielded>>

(***************************************************************************)
(* Pure helpers                                                            *)
(***************************************************************************)
\* a strip of one leading separator only
lstrip_One(s) == IF s # <<>> /\ Head(s) = "/" THEN Tail(s) ELSE s

\* str.lstrip("/") (client.py:43)
RECURSIVE lstrip(_)
lstrip(s) == IF s # <<>> /\ Head(s) = "/" THEN lstrip(Tail(s)) ELSE s

\* urljoin(base, path) for a relative path: the path replaces what follows the
\* last separator of base
RECURSIVE dirname(_)
dirname(s) == IF s = <<>> \/ s[Len(s)] = "/" THEN s ELSE dirname(SubSeq(s, 1, Len(s) - 1))

urljoin(base, path) == IF path = <<>> THEN base ELSE dirname(base) \o path

_build_url(endpoint) == urljoin(base_url, lstrip(endpoint))

\* Response.raise_for_status() raises HTTPError on a 4xx or 5xx status only
raise_for_status(status) == status >= 400 /\ status < 600

\* _refresh_token: the login was rejected (client.py:74)
LoginRejected(status) == status \in {401, 403}

\* a retry after every failed answer
TokenExpired_AnyError(status) == status >= 400

\* _request: the token expired or is invalid (client.py:98)
TokenExpired(status) == status \in {401, 403}

\* the TTD-Auth header a request sent now carries: the session's default headers
\* are merged into every request, a header whose value is None is dropped
SentAuthHeader == IF "TTD-Auth" \in DOMAIN headers THEN headers["TTD-Auth"] ELSE None

(***************************************************************************)
(* The server                                                              *)
(***************************************************************************)
\* the transport failed: Session.request raised instead of returning
TransportFailure == [transport |-> TRUE, status |-> 0, body |-> NoBody]

HttpResponse(status, body) == [transport |-> FALSE, status |-> status, body |-> body]

\* answers of the authentication endpoint
AuthResponses ==
    {TransportFailure}
    \cup {HttpResponse(s, ErrorBody) : s \in {x \in Statuses : raise_for_status(x)}}
    \cup {HttpResponse(s, [Token |-> t]) :
             s \in {x \in Statuses : ~raise_for_status(x)}, t \in TokenFields}

\* answers of a plain endpoint
PlainResponses ==
    {TransportFailure}
    \cup {HttpResponse(s, ErrorBody) : s \in {x \in Statuses : raise_for_status(x)}}
    \cup {HttpResponse(s, b) : s \in {x \in Statuses : ~raise_for_status(x)}, b \in Bodies}

(***************************************************************************)
(* Outcomes of an operation                                                *)
(***************************************************************************)
NoRequest == [method |-> "none", url |-> <<>>, json |-> NoBody]

NoOutcome == [kind |-> "none", exc |-> None, response |-> NoBody, value |-> NoBody]

Return(value) == [kind |-> "return", exc |-> None, response |-> NoBody, value |-> value]

Raise(exc, resp) == [kind |-> "raise", exc |-> exc, response |-> resp, value |-> NoBody]

\* a transport failure propagates as the transport raised it
TransportError == Raise("ConnectionError", NoBody)

(***************************************************************************)
(* Token manager: the token property and _refresh_token                    *)
(***************************************************************************)
\* a setter that forgets the TTD-Auth header
token_setter_KeepsHeader(new_token) ==
    [token |-> new_token, headers |-> headers]

\* a setter that updates the TTD-Auth header and forgets the token
token_setter_KeepsToken(new_token) ==
    [token |-> _token, headers |-> ("TTD-Auth" :> new_token) @@ headers]

\* token.setter (client.py:52-59): the new token and the updated default headers
token_setter(new_token) ==
    [token |-> new_token, headers |-> ("TTD-Auth" :> new_token) @@ headers]

\* the request _refresh_token sends
AuthRequest(expires_in) ==
    [method |-> "POST",
     url |-> _build_url(<<"authentication">>),
     json |-> [Login |-> _login, Password |-> _password,
               TokenExpirationInMinutes |-> expires_in]]

\* one network call as the server sees it, with the answer it gave
Call(kind, rq, resp) ==
    [kind |-> kind, method |-> rq.method, url |-> rq.url, json |-> rq.json,
     hdr |-> SentAuthHeader, resp |-> resp]

\* a refresh that reports every failed login as TTDApiError
RefreshFailure_NoPermissions(resp) ==
    IF resp.transport THEN TransportError
    ELSE IF raise_for_status(resp.status) THEN Raise("TTDApiError", resp)
         ELSE NoOutcome

\* the exception _refresh_token raises on this answer (client.py:70-77), or
\* NoOutcome
RefreshFailure(resp) ==
    IF resp.transport THEN TransportError
    ELSE IF raise_for_status(resp.status)
         THEN IF LoginRejected(resp.status)
              THEN Raise("TTDApiPermissionsError", resp)
              ELSE Raise("TTDApiError", resp)
         ELSE NoOutcome

\* _refresh_token(expires_in): one call to the authentication endpoint; the
\* token is installed on success only.  next is where control goes on success.
_refresh_token(expires_in, resp, next, result) ==
    LET failure == RefreshFailure(resp)
        set == token_setter(resp.body.Token)
    IN  /\ calls' = Append(calls, Call("auth", AuthRequest(expires_in), resp))
        /\ IF failure.kind = "raise"
           THEN /\ outcome' = failure
                /\ pc' = "done"
                /\ UNCHANGED <<_token, headers>>
           ELSE /\ _token' = set.token
                /\ headers' = set.headers
                /\ pc' = next
                /\ outcome' = IF result THEN Return([token |-> set.token]) ELSE outcome

\* the token property is read: a refresh if there is no token
ReadToken ==
    /\ pc \in {"idle", "done"}
    /\ age' = IF age < 2 THEN age + 1 ELSE age
    /\ calls' = <<>>
    /\ req' = [method |-> "token", url |-> <<>>, json |-> NoBody]
    /\ IF _token = None
       THEN /\ pc' = "lazyauth"
            /\ outcome' = NoOutcome
       ELSE /\ pc' = "done"
            /\ outcome' = Return([token |-> _token])
    /\ UNCHANGED <<_token, headers, token_expires_in>>
    /\ gen.kind = "none"
    /\ UNCHANGED genvars

\* the refresh of the token property: self._refresh_token(self.token_expires_in)
LazyAuth ==
    /\ pc = "lazyauth"
    /\ \E resp \in AuthResponses :
         _refresh_token(token_expires_in, resp, "done", TRUE)
    /\ UNCHANGED <<token_expires_in, req, age>>
    /\ UNCHANGED genvars

(***************************************************************************)
(* Authenticated request executor: _request and get/post/put               *)
(***************************************************************************)
\* a failed retry reported as a rejected login
RetryError_AsPermissions(resp) == Raise("TTDApiPermissionsError", resp)

\* a retry that asks for the first page again
RetryRequest_Restart(rq) ==
    [rq EXCEPT !.json = [k \in DOMAIN rq.json |->
                            IF k = "PageStartIndex" THEN 0 ELSE rq.json[k]]]

\* the request of the retry (client.py:103): the method, the URL and the
\* arguments of the first attempt
RetryRequest(rq) == rq

\* the exception of a failed retry (client.py:106)
RetryError(resp) == Raise("TTDApiError", resp)

\* the exception of a failed first attempt that is not retried (client.py:110)
FirstError(resp) == Raise("TTDApiError", resp)

\* get/post/put(endpoint, ...): _request(method, _build_url(endpoint), ...) begins
StartRequest(method, endpoint, json) ==
    /\ req' = [method |-> method, url |-> _build_url(endpoint), json |-> json]
    /\ calls' = <<>>
    /\ outcome' = NoOutcome
    /\ pc' = "first"
    /\ age' = IF age < 2 THEN age + 1 ELSE age

\* the caller invokes get, post or put
Invoke ==
    /\ pc \in {"idle", "done"}
    /\ \E method \in Methods, endpoint \in Endpoints :
         StartRequest(method, endpoint, [data |-> "payload"])
    /\ UNCHANGED <<_token, headers, token_expires_in>>
    /\ gen.kind = "none"
    /\ UNCHANGED genvars

\* answers of a paginated endpoint to a request: a page of the result list that
\* starts at PageStartIndex and holds at most PageSize items; an "exact" server
\* sends the whole slice, a "short" one may send fewer items
PageLengths(json) ==
    LET has == IF server.data > json.PageStartIndex
               THEN server.data - json.PageStartIndex ELSE 0
        full == IF has < json.PageSize THEN has ELSE json.PageSize
    IN  IF server.mode = "exact" THEN {full} ELSE 0..full

Page(json, n) == [Result |-> [i \in 1..n |-> json.PageStartIndex + i]]

PaginatedResponses(rq) ==
    {TransportFailure}
    \cup {HttpResponse(s, ErrorBody) : s \in {x \in Statuses : raise_for_status(x)}}
    \cup {HttpResponse(s, Page(rq.json, n)) :
             s \in {x \in Statuses : ~raise_for_status(x)}, n \in PageLengths(rq.json)}

\* answers of a delta endpoint: a list of changed entities, the tracking version
\* and whether more changes wait; the server has at most MaxDeltaPages pages of
\* changes, the entities of its k-th page are numbered <<k, 1>>, <<k, 2>>, ...
DeltaPage(entity, k, n, version, more) ==
    (entity :> [i \in 1..n |-> [id |-> <<k, i>>]])
    @@ ("LastChangeTrackingVersion" :> version)
    @@ (("More" \o entity \o "Available") :> more)

DeltaResponses ==
    LET k == Len(resps) + 1 IN
    {TransportFailure}
    \cup {HttpResponse(s, ErrorBody) : s \in {x \in Statuses : raise_for_status(x)}}
    \cup {HttpResponse(s, DeltaPage(gen.entity, k, n, v, more)) :
             s \in {x \in Statuses : ~raise_for_status(x)},
             n \in 0..MaxDeltaItems, v \in {Version(k)},
             more \in {b \in BOOLEAN : b => k < MaxDeltaPages}}

\* the answers the server can give to the request rq of the call in progress
Responses(rq) ==
    IF gen.kind = "paginated" THEN PaginatedResponses(rq)
    ELSE IF gen.kind = "delta" THEN DeltaResponses
    ELSE PlainResponses

\* client.py:94-112, first attempt
FirstAttempt ==
    /\ pc = "first"
    /\ \E resp \in Responses(req) :
         /\ calls' = Append(calls, Call("api", req, resp))
         /\ IF resp.transport
            THEN outcome' = TransportError /\ pc' = "done"
            ELSE IF raise_for_status(resp.status)
                 THEN IF TokenExpired(resp.status)
                      THEN outcome' = outcome /\ pc' = "reauth"
                      ELSE outcome' = FirstError(resp) /\ pc' = "done"
                 ELSE outcome' = Return(resp.body) /\ pc' = "done"
    /\ UNCHANGED <<_token, headers, token_expires_in, req, age>>
    /\ UNCHANGED genvars

\* client.py:101: self._refresh_token()
Reauth ==
    /\ pc = "reauth"
    /\ \E resp \in AuthResponses :
         _refresh_token(DefaultExpiresIn, resp, "retry", FALSE)
    /\ UNCHANGED <<token_expires_in, req, age>>
    /\ UNCHANGED genvars

\* client.py:102-108: the one retry
Retry ==
    /\ pc = "retry"
    /\ \E resp \in Responses(RetryRequest(req)) :
         /\ calls' = Append(calls, Call("api", RetryRequest(req), resp))
         /\ pc' = "done"
         /\ outcome' = IF resp.transport THEN TransportError
                       ELSE IF raise_for_status(resp.status) THEN RetryError(resp)
                       ELSE Return(resp.body)
    /\ UNCHANGED <<_token, headers, token_expires_in, req, age>>
    /\ UNCHANGED genvars

(***************************************************************************)
(* Generators                                                              *)
(***************************************************************************)
NoGen == [kind |-> "none", state |-> "none"]
NoServer == [mode |-> "none", data |-> 0]

\* a log of a paginated run keeps its first LogCap entries: a run that goes on
\* beyond them makes the same request over and over; a delta run ends with the
\* server's pages
Log(log, x) == IF gen.kind = "paginated" /\ Len(log) >= LogCap THEN log ELSE Append(log, x)

\* dict.update(other): the keys of other overwrite
update(dict, other) == other @@ dict

\* the generator calls self.post(endpoint, json=json) and waits for it;
\* r is the log of answers so far
GenPost(g, endpoint, json, r) ==
    /\ gen' = [g EXCEPT !.state = "running"]
    /\ posts' = Log(posts, json)
    /\ resps' = r
    /\ StartRequest("POST", endpoint, json)
    /\ UNCHANGED <<client, server, yielded>>

\* a generator that sends its last request again as it yields, without being
\* asked for the next element
GenYield_Eager(g, x, r) ==
    /\ gen' = [g EXCEPT !.state = "suspended"]
    /\ yielded' = Log(yielded, x)
    /\ resps' = r
    /\ pc' = "first"
    /\ calls' = <<>>
    /\ outcome' = NoOutcome
    /\ UNCHANGED <<client, req, age, server, posts>>

\* the generator yields x to the consumer and is suspended
GenYield(g, x, r) ==
    /\ gen' = [g EXCEPT !.state = "suspended"]
    /\ yielded' = Log(yielded, x)
    /\ resps' = r
    /\ pc' = "idle"
    /\ calls' = <<>>
    /\ outcome' = NoOutcome
    /\ UNCHANGED <<client, req, age, server, posts>>

\* the generator returns: the consumer sees the end of the sequence
GenStop(g, r) ==
    /\ gen' = [g EXCEPT !.state = "done"]
    /\ resps' = r
    /\ pc' = "idle"
    /\ calls' = <<>>
    /\ outcome' = NoOutcome
    /\ UNCHANGED <<client, req, age, server, posts, yielded>>

\* post() raised: the exception leaves the generator, which is finished
GenRaise(g) ==
    /\ gen' = [g EXCEPT !.state = "raised"]
    /\ pc' = "idle"
    /\ calls' = <<>>
    /\ UNCHANGED <<client, req, outcome, age, server, posts, resps, yielded>>

\* the consumer drops a finished generator
Discard ==
    /\ gen.state \in {"done", "raised"}
    /\ gen' = NoGen
    /\ server' = NoServer
    /\ posts' = <<>>
    /\ resps' = <<>>
    /\ yielded' = <<>>
    /\ pc' = "idle"
    /\ req' = NoRequest
    /\ calls' = <<>>
    /\ outcome' = NoOutcome
    /\ UNCHANGED <<client, age>>

(***************************************************************************)
(* Pagination engine: post_paginated (client.py:125-155)                   *)
(***************************************************************************)
PaginatedEndpoint == <<"/", "sitelist", "/", "query", "/", "advertiser">>

\* bodies the caller passes: without and with paging keys of its own
Payloads ==
    {[AdvertiserId |-> "adv"],
     [AdvertiserId |-> "adv", PageStartIndex |-> 7, PageSize |-> 9]}

\* post_paginated(...) is called: a generator object, no code of it has run
post_paginated ==
    /\ gen.kind = "none"
    /\ pc \in {"idle", "done"}
    /\ \E json_payload \in Payloads, page_start_index \in 0..MaxStartIndex,
          page_size \in 0..MaxPageSize, stream_items \in BOOLEAN,
          mode \in {"exact", "short"}, data \in 0..MaxData :
         /\ gen' = [kind |-> "paginated", state |-> "created",
                    endpoint |-> PaginatedEndpoint,
                    json_payload |-> json_payload,
                    page_start_index |-> page_start_index,
                    page_size |-> page_size,
                    stream_items |-> stream_items,
                    paging_params |-> NoBody,
                    resp |-> NoBody,
                    rest |-> <<>>,
                    rejected |-> FALSE]
         /\ server' = [mode |-> mode, data |-> data]
    /\ posts' = <<>>
    /\ resps' = <<>>
    /\ yielded' = <<>>
    /\ pc' = "idle"
    /\ req' = NoRequest
    /\ calls' = <<>>
    /\ outcome' = NoOutcome
    /\ UNCHANGED <<client, age>>

\* a stop after a full page too
LastPage_OrFull(resp, page_size) == Len(resp.Result) <= page_size

\* client.py:151: the page just handled was the last one
LastPage(resp, page_size) == Len(resp.Result) < page_size

\* a cursor that moves on by one item
NextPageStartIndex_ByOne(paging_params, page_size) == paging_params.PageStartIndex + 1

\* client.py:154: the cursor after a full page
NextPageStartIndex(paging_params, page_size) == paging_params.PageStartIndex + page_size

\* client.py:151-155 and, looping, 144: stop after a short page, else advance
\* the cursor, merge it into the body and post again
PaginatedAfterPage(g, r) ==
    IF LastPage(g.resp, g.page_size)
    THEN GenStop(g, r)
    ELSE LET params == [g.paging_params EXCEPT
                          !.PageStartIndex = NextPageStartIndex(g.paging_params, g.page_size)]
             payload == update(g.json_payload, params)
         IN  GenPost([g EXCEPT !.paging_params = params, !.json_payload = payload],
                     g.endpoint, payload, r)

\* the consumer asks for the next element of the paginated sequence
PaginatedPull ==
    /\ gen.kind = "paginated"
    /\ \/ /\ gen.state = "created"
          \* client.py:138-144
          /\ LET params == [PageStartIndex |-> gen.page_start_index,
                            PageSize |-> gen.page_size]
                 payload == update(gen.json_payload, params)
             IN  GenPost([gen EXCEPT !.paging_params = params, !.json_payload = payload],
                         gen.endpoint, payload, resps)
       \/ /\ gen.state = "suspended"
          /\ IF gen.stream_items /\ gen.rest # <<>>
             THEN \* client.py:147-148: the next item of the page
                  GenYield([gen EXCEPT !.rest = Tail(gen.rest)], Head(gen.rest), resps)
             ELSE PaginatedAfterPage(gen, resps)

\* self.post(...) of client.py:144 is over: yield the page or its first item;
\* a page without items yields nothing in flatten mode
PaginatedResume ==
    /\ gen.kind = "paginated"
    /\ gen.state = "running"
    /\ pc = "done"
    /\ IF outcome.kind = "raise"
       THEN GenRaise(gen)
       ELSE LET resp == outcome.value
                \* rejected records that a post() of this run was answered
                \* only after a refresh and a retry
                g == [gen EXCEPT !.resp = resp,
                                 !.rejected = gen.rejected \/ Len(calls) > 1]
                r == Log(resps, resp)
            IN  IF ~g.stream_items
                THEN GenYield(g, resp, r)
                ELSE IF resp.Result # <<>>
                     THEN GenYield([g EXCEPT !.rest = Tail(resp.Result)],
                                   Head(resp.Result), r)
                     ELSE PaginatedAfterPage(g, r)

(***************************************************************************)
(* Delta-sync engine (client.py:234-359)                                   *)
(***************************************************************************)
\* _post_delta_endpoint (client.py:252-254): what it reads from the answer
_post_delta_endpoint(resp, entity) ==
    [items |-> resp[entity],
     version |-> resp["LastChangeTrackingVersion"],
     more |-> resp["More" \o entity \o "Available"]]

\* _fetch_one_delta_campaign_for_advertiser (client.py:256-272): its request
_fetch_one_delta_campaign_for_advertiser(advertiser_id, last_change_tracking_version) ==
    [endpoint |-> <<"delta", "/", "campaign", "/", "query", "/", "advertiser">>,
     json |-> [AdvertiserId |-> advertiser_id,
               ReturnEntireCampaign |-> TRUE,
               LastChangeTrackingVersion |-> last_change_tracking_version],
     entity |-> "Campaigns"]

\* _fetch_one_delta_adgroup_for_advertiser (client.py:309-325): its request
_fetch_one_delta_adgroup_for_advertiser(advertiser_id, last_change_tracking_version) ==
    [endpoint |-> <<"delta", "/", "adgroup", "/", "query", "/", "advertiser">>,
     json |-> [AdvertiserId |-> advertiser_id,
               ReturnEntireAdgroup |-> TRUE,
               LastChangeTrackingVersion |-> last_change_tracking_version],
     entity |-> "AdGroups"]

NewDeltaGen(entity, advertiser_id, last_change_tracking_version) ==
    [kind |-> "delta", state |-> "created", entity |-> entity,
     advertiser_id |-> advertiser_id,
     last_change_tracking_version |-> last_change_tracking_version,
     first |-> TRUE,
     rest |-> <<>>,
     new_tracking_version |-> None,
     more_data |-> FALSE]

StartDelta(entity) ==
    /\ gen.kind = "none"
    /\ pc \in {"idle", "done"}
    /\ \E last_change_tracking_version \in CallerVersions :
         gen' = NewDeltaGen(entity, "adv", last_change_tracking_version)
    /\ server' = [mode |-> "delta", data |-> 0]
    /\ posts' = <<>>
    /\ resps' = <<>>
    /\ yielded' = <<>>
    /\ pc' = "idle"
    /\ req' = NoRequest
    /\ calls' = <<>>
    /\ outcome' = NoOutcome
    /\ UNCHANGED <<client, age>>

\* the generator functions are called: no code of them has run
fetch_all_delta_campaigns_for_advertiser == StartDelta("Campaigns")

fetch_all_delta_adgroups_for_advertiser == StartDelta("AdGroups")

\* the one-page fetch of the generator with the version it passes: the request
\* of _fetch_one_delta_campaign_for_advertiser or of its adgroup twin
DeltaFetch(g, version, r) ==
    LET rq == IF g.entity = "Campaigns"
              THEN _fetch_one_delta_campaign_for_advertiser(g.advertiser_id, version)
              ELSE _fetch_one_delta_adgroup_for_advertiser(g.advertiser_id, version)
    IN  GenPost(g, rq.endpoint, rq.json, r)

\* every page asked with the caller's version
NextVersion_Original(g) == g.last_change_tracking_version

\* the version the generator asks the next page with (client.py:301-303, 354-356)
NextVersion(g) == g.new_tracking_version

\* a first page without items that yields no version
EmptyFirstPage_NoVersion(version) == <<NoBody, None>>

\* what a first page without items yields (client.py:290, 343)
EmptyFirstPage(version) == <<NoBody, version>>

\* a cursor-only pair for every page without items
CursorOnly_EveryPage(g, page) == page.items = <<>>

\* the page just fetched yields (None, version): the first page when it holds
\* no item (client.py:287-290, 340-343); the while loop has no such case
CursorOnly(g, page) == g.first /\ page.items = <<>>

\* a loop that never fetches again
MoreData_Never(g) == FALSE

\* while more_data (client.py:295, 348)
MoreData(g) == g.more_data

\* the rest of the page in hand, then the while loop (client.py:292-306, 345-359):
\* the next item paired with the version of its page; without one, another
\* fetch while more_data holds, else the end
DeltaAdvance(g, r) ==
    IF g.rest # <<>>
    THEN GenYield([g EXCEPT !.rest = Tail(g.rest)],
                  <<Head(g.rest), g.new_tracking_version>>, r)
    ELSE IF MoreData(g)
         THEN DeltaFetch(g, NextVersion(g), r)
         ELSE GenStop(g, r)

\* the consumer asks for the next pair of the delta sequence
DeltaPull ==
    /\ gen.kind = "delta"
    /\ \/ /\ gen.state = "created"
          \* client.py:280-282, 333-335
          /\ DeltaFetch(gen, gen.last_change_tracking_version, resps)
       \/ /\ gen.state = "suspended"
          /\ DeltaAdvance(gen, resps)

\* self.post(...) of _post_delta_endpoint is over
DeltaResume ==
    /\ gen.kind = "delta"
    /\ gen.state = "running"
    /\ pc = "done"
    /\ IF outcome.kind = "raise"
       THEN GenRaise(gen)
       ELSE LET page == _post_delta_endpoint(outcome.value, gen.entity)
                g == [gen EXCEPT !.rest = page.items,
                                 !.new_tracking_version = page.version,
                                 !.more_data = page.more,
                                 !.first = FALSE]
                r == Append(resps, outcome.value)
            IN  IF CursorOnly(gen, page)
                THEN \* client.py:289-290, 342-343
                     GenYield(g, EmptyFirstPage(page.version), r)
                ELSE DeltaAdvance(g, r)

(***************************************************************************)
(* Specification                                                           *)
(***************************************************************************)
\* __init__ (client.py:31-40): no token, no TTD-Auth header, nothing sent
Init ==
    /\ _token = None
    /\ headers = <<>>
    /\ token_expires_in \in ExpiresInValues
    /\ pc = "idle"
    /\ req = NoRequest
    /\ calls = <<>>
    /\ outcome = NoOutcome
    /\ age = 0
    /\ gen = NoGen
    /\ server = NoServer
    /\ posts = <<>>
    /\ resps = <<>>
    /\ yielded = <<>>

Next ==
    \/ ReadToken
    \/ LazyAuth
    \/ Invoke
    \/ FirstAttempt
    \/ Reauth
    \/ Retry
    \/ post_paginated
    \/ PaginatedPull
    \/ PaginatedResume
    \/ fetch_all_delta_campaigns_for_advertiser
    \/ fetch_all_delta_adgroups_for_advertiser
    \/ DeltaPull
    \/ DeltaResume
    \/ Discard

Spec == Init /\ [][Next]_vars

\* the client's one thread runs on, the server answers every call and the
\* consumer of a generator keeps pulling
FairSpec == Spec /\ WF_vars(Next)

(***************************************************************************)
(* _build_url on its own (client.py:42-43)                                 *)
(***************************************************************************)
\* the parts an endpoint string is made of: the path separator and names
UrlParts == {"/", "campaign", "query"}

\* every endpoint string of at most MaxEndpointLen parts, the empty one and
\* those with several leading separators among them
EndpointStrings == UNION {[1..n -> UrlParts] : n \in 0..MaxEndpointLen}

\* one application of _build_url as it is recorded: the argument, what
\* endpoint.lstrip("/") made of it and the URL returned
BuildUrlCall(endpoint) ==
    [endpoint |-> endpoint, stripped |-> lstrip(endpoint), url |-> _build_url(endpoint)]

\* a client and an endpoint string e
UrlInit ==
    /\ _token = None
    /\ headers = <<>>
    /\ token_expires_in \in ExpiresInValues
    /\ pc = "idle"
    /\ \E e \in EndpointStrings : req = [method |-> "_build_url", url |-> e, json |-> NoBody]
    /\ calls = <<>>
    /\ outcome = NoOutcome
    /\ age = 0
    /\ gen = NoGen
    /\ server = NoServer
    /\ posts = <<>>
    /\ resps = <<>>
    /\ yielded = <<>>

\* self._build_url(e)
BuildUrl ==
    /\ pc = "idle"
    /\ calls' = Append(calls, BuildUrlCall(req.url))
    /\ outcome' = Return([url |-> _build_url(req.url)])
    /\ pc' = "built"
    /\ UNCHANGED <<client, req, age, genvars>>

\* self._build_url("/" + e)
BuildUrlWithSeparator ==
    /\ pc = "built"
    /\ calls' = Append(calls, BuildUrlCall(<<"/">> \o req.url))
    /\ outcome' = Return([url |-> _build_url(<<"/">> \o req.url)])
    /\ pc' = "done"
    /\ UNCHANGED <<client, req, age, genvars>>

UrlNext ==
    \/ BuildUrl
    \/ BuildUrlWithSeparator

UrlSpec == UrlInit /\ [][UrlNext]_vars

(***************************************************************************)
(* What the claims speak of                                                *)
(***************************************************************************)
\* the calls of the current operation to its endpoint, and to authentication
ApiCalls == SelectSeq(calls, LAMBDA c : c.kind = "api")
AuthCalls == SelectSeq(calls, LAMBDA c : c.kind = "auth")

Is2xx(resp) == ~resp.transport /\ resp.status >= 200 /\ resp.status < 300
Is401or403(resp) == ~resp.transport /\ resp.status \in {401, 403}
IsHttpError(resp) == ~resp.transport /\ resp.status >= 400 /\ resp.status < 600
IsNon2xx(resp) == ~resp.transport /\ ~(resp.status >= 200 /\ resp.status < 300)

\* the current operation is an authenticated call (get, post or put)
AuthenticatedCall == req.method \in Methods

\* the first answer of the endpoint was 401 or 403
FirstRejected ==
    /\ AuthenticatedCall
    /\ calls # <<>>
    /\ calls[1].kind = "api"
    /\ Is401or403(calls[1].resp)

(***************************************************************************)
(* C1  Reauth-once, success path                                           *)
(***************************************************************************)
\* C1: when the first answer of the endpoint is 401 or 403, the authentication
\* endpoint then answers 2xx and the endpoint's second answer is 2xx, the
\* operation made exactly two calls to the endpoint with exactly one
\* authentication call between them, the second call is the first one again
\* with the token that authentication call installed, and the operation
\* returns the body of the second answer.
C1_ReauthOnceSuccess ==
    ( /\ FirstRejected
      /\ \E i \in 1..Len(calls) : calls[i].kind = "auth" /\ Is2xx(calls[i].resp)
      /\ Len(ApiCalls) >= 2
      /\ Is2xx(ApiCalls[2].resp) )
    => /\ Len(calls) = 3
       /\ calls[2].kind = "auth"
       /\ calls[3].kind = "api"
       /\ calls[3].method = calls[1].method
       /\ calls[3].url = calls[1].url
       /\ calls[3].json = calls[1].json
       /\ calls[3].hdr = calls[2].resp.body.Token
       /\ pc = "done"
       /\ outcome = Return(calls[3].resp.body)

\* a call rejected with token t1 is repeated with the new token t2 and succeeds
C1_Witness ==
    /\ FirstRejected
    /\ Len(calls) = 3
    /\ Is2xx(calls[2].resp)
    /\ Is2xx(calls[3].resp)
    /\ calls[1].hdr = "t1"
    /\ calls[3].hdr = "t2"
    /\ calls[1].resp.body # calls[3].resp.body
    /\ outcome.kind = "return"

(***************************************************************************)
(* C2  Reauth-once, failure path                                           *)
(***************************************************************************)
\* no operation calls its endpoint a third time or refreshes a second time
AtMostOneRetry ==
    /\ Len(ApiCalls) <= 2
    /\ Len(AuthCalls) <= 1

\* C2 as claimed: when the first answer is 401/403 and the answer to the retry
\* is any non-2xx status, the call fails with TTDApiError after exactly two
\* calls and one refresh; and never a third call or a second refresh.
C2_AsClaimed ==
    /\ AtMostOneRetry
    /\ ( /\ FirstRejected
         /\ Len(ApiCalls) >= 2
         /\ IsNon2xx(ApiCalls[2].resp) )
       => /\ pc = "done"
          /\ outcome = Raise("TTDApiError", ApiCalls[2].resp)
          /\ Len(ApiCalls) = 2
          /\ Len(AuthCalls) = 1

\* C2 amended: the same for an answer to the retry with a 4xx or 5xx status
\* (401 and 403 among them)
C2_ReauthOnceFailure ==
    /\ AtMostOneRetry
    /\ ( /\ FirstRejected
         /\ Len(ApiCalls) >= 2
         /\ IsHttpError(ApiCalls[2].resp) )
       => /\ pc = "done"
          /\ outcome = Raise("TTDApiError", ApiCalls[2].resp)
          /\ Len(ApiCalls) = 2
          /\ Len(AuthCalls) = 1

\* the endpoint answers 401 before and after the refresh
C2_Witness ==
    /\ FirstRejected
    /\ Len(calls) = 3
    /\ ~calls[3].resp.transport
    /\ calls[3].resp.status = 401
    /\ outcome.exc = "TTDApiError"

(***************************************************************************)
(* C3  Lazy token acquisition                                              *)
(***************************************************************************)
\* C3: constructing a client issues no network call; the first authenticated
\* operation of a fresh client calls the authentication endpoint exactly once
\* before its first call to the target endpoint, which so carries a token.
C3_LazyTokenAcquisition ==
    /\ age = 0 => calls = <<>>
    /\ (age = 1 /\ AuthenticatedCall /\ ApiCalls # <<>>)
       => /\ calls[1].kind = "auth"
          /\ calls[2].kind = "api"
          /\ calls[2].hdr # None

(***************************************************************************)
(* C4  Permission propagation                                              *)
(***************************************************************************)
\* the authentication call i of the current operation ended the operation with
\* the exception exc, which carries the answer: no call follows it
RefreshFailedWith(i, exc) ==
    /\ i = Len(calls)
    /\ pc = "done"
    /\ outcome = Raise(exc, calls[i].resp)
    /\ Len(AuthCalls) = 1

\* C4 as claimed: a 401 or 403 of the authentication endpoint fails the refresh
\* (lazy or forced) with TTDApiPermissionsError, any other non-2xx answer with
\* TTDApiError; the authentication call is not repeated and the rejected
\* endpoint is not called again.
C4_AsClaimed ==
    \A i \in 1..Len(calls) :
        (calls[i].kind = "auth" /\ IsNon2xx(calls[i].resp))
        => IF Is401or403(calls[i].resp)
           THEN RefreshFailedWith(i, "TTDApiPermissionsError")
           ELSE RefreshFailedWith(i, "TTDApiError")

\* C4 amended: the same, with TTDApiError for any other 4xx or 5xx answer
C4_PermissionPropagation ==
    \A i \in 1..Len(calls) :
        (calls[i].kind = "auth" /\ IsHttpError(calls[i].resp))
        => IF Is401or403(calls[i].resp)
           THEN RefreshFailedWith(i, "TTDApiPermissionsError")
           ELSE RefreshFailedWith(i, "TTDApiError")

\* a refresh forced by a rejected call is itself rejected with 403
C4_Witness ==
    /\ FirstRejected
    /\ Len(calls) = 2
    /\ calls[2].kind = "auth"
    /\ ~calls[2].resp.transport
    /\ calls[2].resp.status = 403
    /\ outcome.exc = "TTDApiPermissionsError"
    /\ pc = "done"

(***************************************************************************)
(* C5  Retry is triggered only by 401/403                                  *)
(***************************************************************************)
\* a transport failure of a call to the endpoint ends the operation with that
\* failure: no call and no refresh follows it
TransportFailurePropagates ==
    \A i \in 1..Len(calls) :
        (AuthenticatedCall /\ calls[i].kind = "api" /\ calls[i].resp.transport)
        => /\ i = Len(calls)
           /\ pc = "done"
           /\ outcome = TransportError

\* the first attempt failed the operation with TTDApiError: one call, no refresh
FirstAttemptFailed ==
    /\ Len(calls) = 1
    /\ pc = "done"
    /\ outcome = Raise("TTDApiError", calls[1].resp)

\* C5 as claimed: a first attempt that ends in a non-2xx status other than
\* 401/403 fails with TTDApiError after one call to the endpoint and no
\* authentication call; a transport failure propagates as it is.
C5_AsClaimed ==
    /\ TransportFailurePropagates
    /\ ( /\ AuthenticatedCall
         /\ calls # <<>>
         /\ calls[1].kind = "api"
         /\ IsNon2xx(calls[1].resp)
         /\ ~Is401or403(calls[1].resp) )
       => FirstAttemptFailed

\* C5 amended: the same for a first attempt that ends in a 4xx or 5xx status
\* other than 401/403
C5_RetryOnlyOn401or403 ==
    /\ TransportFailurePropagates
    /\ ( /\ AuthenticatedCall
         /\ calls # <<>>
         /\ calls[1].kind = "api"
         /\ IsHttpError(calls[1].resp)
         /\ ~Is401or403(calls[1].resp) )
       => FirstAttemptFailed

\* the endpoint answers 500 to the first attempt
C5_Witness ==
    /\ AuthenticatedCall
    /\ Len(calls) = 1
    /\ calls[1].kind = "api"
    /\ ~calls[1].resp.transport
    /\ calls[1].resp.status = 500
    /\ outcome.exc = "TTDApiError"

C7_PaginationStop ==
    gen.kind = "paginated"
    => /\ \A k \in 1..Len(resps) :
            Len(resps[k].Result) < gen.page_size
            => /\ k = Len(resps)
               /\ Len(posts) = k
               /\ gen.state \in {"suspended", "done"}
       /\ gen.state = "done"
          => /\ resps # <<>>
             /\ Len(resps[Len(resps)].Result) < gen.page_size
       /\ (resps # <<>> /\ resps[1].Result = <<>> /\ gen.page_size > 0)
          => /\ Len(posts) = 1
             /\ yielded = IF gen.stream_items THEN <<>> ELSE <<resps[1]>>
             /\ gen.stream_items => gen.state = "done"

\* a full page of 2 was followed by a second request, whose answer was empty
C7_Witness ==
    /\ gen.kind = "paginated"
    /\ gen.state = "done"
    /\ gen.page_size = 2
    /\ Len(posts) = 2
    /\ Len(resps) = 2
    /\ Len(resps[1].Result) = 2
    /\ resps[2].Result = <<>>

\* an empty first page
C7_WitnessEmpty ==
    /\ gen.kind = "paginated"
    /\ gen.state = "done"
    /\ gen.page_size > 0
    /\ Len(resps) = 1
    /\ resps[1].Result = <<>>

(***************************************************************************)
(* C8  Pagination is self-terminating                                      *)
(***************************************************************************)
\* C8: against a server that serves the slices of a fixed finite list, a
\* consumer that keeps pulling from post_paginated reaches the end of the
\* sequence, for every page_start_index >= 0 and page_size >= 0.
C8_SelfTerminating ==
    (gen.kind = "paginated" /\ server.mode = "exact")
    ~> (gen.state \in {"done", "raised"})

\* with a page_size of at least 1 the sequence does end
C8_TerminatesForPositivePageSize ==
    (gen.kind = "paginated" /\ server.mode = "exact" /\ gen.page_size > 0)
    ~> (gen.state \in {"done", "raised"})

(***************************************************************************)
(* C9  Delta-sync cursor preservation on an empty first page               *)
(***************************************************************************)
Items(resp) == resp[gen.entity]
VersionOf(resp) == resp["LastChangeTrackingVersion"]
More(resp) == resp["More" \o gen.entity \o "Available"]

\* C9: when the first delta answer holds no items, the generator yields
\* exactly one pair (None, version) for it, version being that answer's
\* LastChangeTrackingVersion; with more_available false this pair is the whole
\* sequence.
C9_EmptyFirstPage ==
    (gen.kind = "delta" /\ resps # <<>> /\ Items(resps[1]) = <<>>)
    => /\ yielded # <<>>
       /\ yielded[1] = <<NoBody, VersionOf(resps[1])>>
       /\ \A i \in 2..Len(yielded) : yielded[i][1] # NoBody
       /\ ~More(resps[1])
          => /\ yielded = << <<NoBody, VersionOf(resps[1])>> >>
             /\ Len(posts) = 1
             /\ gen.state \in {"suspended", "done"}

\* the adgroups sequence ended after the one pair of an empty first page
C9_Witness ==
    /\ gen.kind = "delta"
    /\ gen.entity = "AdGroups"
    /\ gen.state = "done"
    /\ Len(resps) = 1
    /\ Items(resps[1]) = <<>>
    /\ yielded = << <<NoBody, "V1">> >>

(***************************************************************************)
(* C10  Delta-sync cursor chaining                                         *)
(***************************************************************************)
\* the pairs of one answer: its items in order, each with its version
PagePairs(resp) == [i \in 1..Len(Items(resp)) |-> <<Items(resp)[i], VersionOf(resp)>>]

\* the pairs of a run of answers after the first
RECURSIVE LaterPairs(_)
LaterPairs(rs) == IF rs = <<>> THEN <<>> ELSE PagePairs(Head(rs)) \o LaterPairs(Tail(rs))

\* the pairs of the answers received so far
AllPairs ==
    IF resps = <<>> THEN <<>>
    ELSE (IF Items(resps[1]) = <<>> THEN << <<NoBody, VersionOf(resps[1])>> >>
          ELSE PagePairs(resps[1]))
         \o LaterPairs(Tail(resps))

\* C10: the first delta request carries the caller's
\* last_change_tracking_version, every later one the LastChangeTrackingVersion
\* of the answer before it; the consumer receives the items in the order of
\* the answers, each paired with the version of its answer.
C10_CursorChaining ==
    gen.kind = "delta"
    => /\ \A k \in 1..Len(posts) :
            posts[k].LastChangeTrackingVersion =
                IF k = 1 THEN gen.last_change_tracking_version
                ELSE VersionOf(resps[k - 1])
       /\ Len(yielded) <= Len(AllPairs)
       /\ yielded = SubSeq(AllPairs, 1, Len(yielded))
       /\ gen.state = "done" => yielded = AllPairs

\* (item1, V1), (item2, V2), (item3, V2), the second request asked with V1
C10_Witness ==
    /\ gen.kind = "delta"
    /\ gen.state = "done"
    /\ Len(posts) = 2
    /\ posts[1].LastChangeTrackingVersion = "V0"
    /\ posts[2].LastChangeTrackingVersion = "V1"
    /\ yielded = << <<[id |-> <<1, 1>>], "V1">>,
                    <<[id |-> <<2, 1>>], "V2">>,
                    <<[id |-> <<2, 2>>], "V2">> >>

(***************************************************************************)
(* C11  Change-tracking cursor invariant                                   *)
(***************************************************************************)
\* C11: in a delta run the tracking version of every answer received, an
\* answer without items on any page included, is in at least one pair the
\* consumer received, and the last pair received carries the version of the
\* last answer.
C11_CursorSurfaced ==
    gen.kind = "delta"
    => /\ \A k \in 1..Len(resps) :
            \E i \in 1..Len(yielded) : yielded[i][2] = VersionOf(resps[k])
       /\ (resps # <<>> /\ yielded # <<>>)
          => yielded[Len(yielded)][2] = VersionOf(resps[Len(resps)])

(***************************************************************************)
(* C12  The token property never returns an empty or invalid token         *)
(***************************************************************************)
\* C12: every read of the token property either raises or returns a token the
\* authentication endpoint issued, never the absent or an empty value,
\* whatever the authentication endpoint answers.
C12_TokenNeverEmpty ==
    (req.method = "token" /\ pc = "done" /\ outcome.kind = "return")
    => outcome.value.token \in Tokens

(***************************************************************************)
(* C13  Token/header agreement                                             *)
(***************************************************************************)
\* the answer of a call that is a successful authentication
IsIssued(c) == c.kind = "auth" /\ ~c.resp.transport /\ ~raise_for_status(c.resp.status)

\* C13: whenever a token is installed the TTD-Auth default header equals it,
\* and every request issued then carries it; the token changes only in the
\* step of a successful authentication answer, to the Token of that answer, so
\* the current token is the Token of the most recent successful authentication
\* answer; a call made after a refresh in the same operation carries the
\* refreshed token, never the one it replaced.
C13_TokenHeaderAgreement ==
    [][ /\ _token # None
           => /\ "TTD-Auth" \in DOMAIN headers
              /\ headers["TTD-Auth"] = _token
        /\ \A i \in 1..Len(calls) : \A j \in (i + 1)..Len(calls) :
              (IsIssued(calls[i]) /\ calls[i].resp.body.Token # None)
              => calls[j].hdr = calls[i].resp.body.Token
        /\ IF Len(calls') > Len(calls)
           THEN LET c == calls'[Len(calls')]
                IN  /\ _token # None => c.hdr = _token
                    /\ IsIssued(c) => _token' = c.resp.body.Token
                    /\ ~IsIssued(c) => _token' = _token
           ELSE _token' = _token
      ]_vars

\* in a delta run a page request sent with the token t2 was rejected, the
\* refresh installed t1 and the retry carried t1
C13_Witness ==
    /\ gen.kind = "delta"
    /\ Len(calls) = 3
    /\ calls[1].hdr = "t2"
    /\ IsIssued(calls[2])
    /\ calls[3].hdr = "t1"
    /\ _token = "t1"
    /\ headers["TTD-Auth"] = "t1"

(***************************************************************************)
(* C14  Lazy, pull-driven sequences                                        *)
(***************************************************************************)
\* the consumer asks a generator for its next element
ConsumerPulls == PaginatedPull \/ DeltaPull

\* C14: a generator that was created and not yet pulled has issued no request,
\* a generator suspended at a yield has no request under way, and from either
\* the only step that issues a request is a pull of the consumer.
C14_PullDriven ==
    [][ (gen.kind # "none" /\ gen.state \in {"created", "suspended"})
        => /\ pc = "idle"
           /\ calls = <<>>
           /\ gen.state = "created" => (posts = <<>> /\ resps = <<>> /\ yielded = <<>>)
           /\ (pc' # "idle" \/ calls' # <<>> \/ posts' # posts) => ConsumerPulls
      ]_vars

\* page mode: two pages were yielded, each after one request, and the
\* generator waits at its second yield with no request under way
C14_Witness ==
    /\ gen.kind = "paginated"
    /\ ~gen.stream_items
    /\ gen.state = "suspended"
    /\ Len(posts) = 2
    /\ Len(yielded) = 2
    /\ pc = "idle"
    /\ calls = <<>>

(***************************************************************************)
(* C15  URL joining safety                                                 *)
(***************************************************************************)
\* C15: for the client's base URL and every endpoint string e, _build_url(e)
\* and _build_url("/" + e) are the same URL; stripping the leading separators
\* is idempotent and what it leaves does not begin with a separator.
C15_UrlJoiningSafety ==
    req.method = "_build_url"
    => /\ \A i \in 1..Len(calls) :
            /\ lstrip(calls[i].stripped) = calls[i].stripped
            /\ calls[i].stripped = <<>> \/ Head(calls[i].stripped) # "/"
       /\ Len(calls) = 2
          => /\ calls[2].endpoint = <<"/">> \o calls[1].endpoint
             /\ calls[2].url = calls[1].url

\* the endpoint "//campaign", and "/" before it, both give base_url + "campaign"
C15_Witness ==
    /\ req.method = "_build_url"
    /\ req.url = <<"/", "/", "campaign">>
    /\ Len(calls) = 2
    /\ calls[1].url = base_url \o <<"campaign">>
    /\ calls[2].url = base_url \o <<"campaign">>

DeltaRequestsFollowFlag ==
    gen.kind = "delta"
    => /\ Len(posts) \in {Len(resps), Len(resps) + 1}
       /\ \A k \in 1..Len(resps) :
            IF More(resps[k])
            THEN \/ Len(posts) > k
                 \/ k = Len(resps) /\ gen.state = "suspended"
            ELSE /\ k = Len(resps)
                 /\ Len(posts) = k
                 /\ gen.state \in {"suspended", "done"}
       /\ gen.state = "done"
          => /\ resps # <<>>
             /\ ~More(resps[Len(resps)])

\* C17: a delta run issues another request exactly when the most recent
\* answer had More<Entity>Available true and none after the first answer with
\* the flag false; a consumer that keeps pulling reaches the end of the
\* sequence (or the exception of a failed request) when the server, which has
\* finitely many pages of changes, reports the flag false.
C17_DeltaTermination ==
    /\ []DeltaRequestsFollowFlag
    /\ (gen.kind = "delta") ~> (gen.state \in {"done", "raised"})

\* the sequence ended after three requests: flag true, true, false
C17_Witness ==
    /\ gen.kind = "delta"
    /\ gen.state = "done"
    /\ Len(posts) = 3
    /\ Len(resps) = 3
    /\ More(resps[1])
    /\ More(resps[2])
    /\ ~More(resps[3])

(***************************************************************************)
(* C18  Authentication requests carry the client's configuration           *)
(***************************************************************************)
\* the body of an authentication request with the lifetime the client was
\* constructed with
ConfiguredLogin ==
    [Login |-> _login, Password |-> _password,
     TokenExpirationInMinutes |-> token_expires_in]

\* C18: every authentication request, the lazy first acquisition and the
\* refresh forced by a 401/403 alike, carries the client's Login, Password
\* and its token_expires_in as TokenExpirationInMinutes.
C18_AuthRequestCarriesConfig ==
    \A i \in 1..Len(calls) :
        calls[i].kind = "auth" => calls[i].json = ConfiguredLogin

\* the lazy acquisition of the token property does carry the configuration,
\* and every authentication request carries the Login and the Password
C18_LazyCarriesConfig ==
    \A i \in 1..Len(calls) :
        calls[i].kind = "auth"
        => /\ calls[i].json.Login = _login
           /\ calls[i].json.Password = _password
           /\ req.method = "token" => calls[i].json = ConfiguredLogin

(***************************************************************************)
(* C19  Token expiry during pagination loses nothing                       *)
(***************************************************************************)
\* the items of the server's list from page_start_index to its end, in order
ItemsFromStart ==
    [i \in 1..(IF server.data > gen.page_start_index
               THEN server.data - gen.page_start_index ELSE 0)
       |-> gen.page_start_index + i]

\* C19: against a server that serves the slices of a fixed finite list, the
\* retry of a page request rejected with 401/403 carries the PageStartIndex
\* and the PageSize of the rejected request, which are those of the request
\* the generator made; the cursor of the k-th request is
\* page_start_index + k * page_size whether or not requests were rejected; and
\* flatten mode yields the items from page_start_index on in order, each
\* once, all of them when the sequence ends.
C19_TokenExpiryLosesNothing ==
    (gen.kind = "paginated" /\ server.mode = "exact")
    => /\ (FirstRejected /\ Len(calls) = 3)
          => /\ calls[3].json.PageStartIndex = calls[1].json.PageStartIndex
             /\ calls[3].json.PageSize = calls[1].json.PageSize
             /\ calls[3].json = posts[Len(posts)]
       /\ \A k \in 1..Len(posts) :
            posts[k].PageStartIndex = gen.page_start_index + (k - 1) * gen.page_size
       /\ gen.stream_items
          => /\ Len(yielded) <= Len(ItemsFromStart)
             /\ yielded = SubSeq(ItemsFromStart, 1, Len(yielded))
             /\ gen.state = "done" => yielded = ItemsFromStart

\* a flatten run over the items 1, 2, 3 with pages of 2 ended; a page request
\* of it had been rejected and retried, and the consumer got 1, 2, 3
C19_Witness ==
    /\ gen.kind = "paginated"
    /\ server.mode = "exact"
    /\ gen.stream_items
    /\ gen.rejected
    /\ gen.state = "done"
    /\ gen.page_size = 2
    /\ Len(posts) = 2
    /\ yielded = <<1, 2, 3>>

\* the second page request is rejected: the retry carries its cursor 2
C19_WitnessRetry ==
    /\ gen.kind = "paginated"
    /\ server.mode = "exact"
    /\ FirstRejected
    /\ Len(calls) = 3
    /\ Len(posts) = 2
    /\ calls[3].json.PageStartIndex = 2
    /\ outcome.kind = "return"

(***************************************************************************)
(* C20  Token state changes only on a successful refresh                   *)
(***************************************************************************)
\* this step received the answer of a successful authentication
RefreshSucceeds == Len(calls') > Len(calls) /\ IsIssued(calls'[Len(calls')])

\* a refresh that fails and a step that is no refresh leave the token and the
\* TTD-Auth header as they are; a successful refresh makes the Token of its
\* answer the token and the TTD-Auth header
C20_FrameAndReplace ==
    [][ IF RefreshSucceeds
        THEN /\ _token' = calls'[Len(calls')].resp.body.Token
             /\ headers' = ("TTD-Auth" :> _token') @@ headers
        ELSE UNCHANGED <<_token, headers>>
      ]_vars

\* C20: a refresh that fails and a call that makes no refresh leave the token
\* and the TTD-Auth header unchanged, a successful refresh replaces the token
\* whole, and once a token is installed the client never goes back to the
\* state without a token.
C20_TokenChangesOnlyOnRefresh ==
    [][ /\ IF RefreshSucceeds
           THEN /\ _token' = calls'[Len(calls')].resp.body.Token
                /\ headers' = ("TTD-Auth" :> _token') @@ headers
           ELSE UNCHANGED <<_token, headers>>
        /\ _token # None => _token' # None
      ]_vars

====
